---------------------------- MODULE Spec2Model ----------------------------
(***************************************************************************)
(* Population Dynamics in the Netherlands (src/app.py): a Streamlit page   *)
(* that is re-executed from top to bottom on every user interaction.  The  *)
(* state is the CSV file on disk, the process-wide st.cache_data cache of  *)
(* load_data, and what the latest execution of main() put on the page.     *)
(*                                                                         *)
(* Numbers.  Populations and the other measures are integer counts or NaN  *)
(* (a missing value).  The regression of scikit-learn works in floating    *)
(* point; here it is computed exactly, over rationals <<n, d>>, so the     *)
(* model is the fit without rounding error.                                *)
(***************************************************************************)
EXTENDS Integers, Sequences, FiniteSets, TLC

(***************************************************************************)
(* Bounds of the model.                                                    *)
(***************************************************************************)
MaxYear == 3        \* 'Periods Label' ranges over 1..MaxYear
MaxPop == 3         \* measures range over 0..MaxPop (or NaN)

(***************************************************************************)
(* Program constants.                                                      *)
(***************************************************************************)
HorizonYears == 10  \* range(last + 1, last + 11)
BandLowPct == 95    \* total_predictions * 0.95
BandHighPct == 105  \* total_predictions * 1.05
NaN == -1000000     \* the missing value pd.isna() recognises

TotalSex == "Total male and female"
Netherlands == "The Netherlands"
default_provinces == {"Noord-Holland (PV)", "Zuid-Holland (PV)", "Fryslân (PV)"}
default_municipalities == {"Amsterdam", "Rotterdam", "The Hague"}
RegionTypes == {"Landsdelen (LD)", "Provinces (PV)", "COROP Regions (CR)", "Municipalities"}

POP == "PopulationOn31December_20"
Measures == {"PopulationOn31December_20", "PopulationDensity_2", "TotalArrivals_8",
             "DueToImmigration_10", "DueToIntermunicipalMoves_11",
             "TotalDeparturesIncludingAdministra_12",
             "DueToEmigrationIncludingAdministr_14", "DueToIntermunicipalMoves_16",
             "NaturalIncrease_7", "LiveBornChildren_3", "Deaths_5"}

(***************************************************************************)
(* Strings: substring search (str.contains of an escaped literal, `in`)    *)
(* and str.lower().                                                        *)
(***************************************************************************)
Contains(s, p) ==
    \E i \in 1..(Len(s) - Len(p) + 1) : SubSeq(s, i, i + Len(p) - 1) = p

LowerChar(c) ==
    CASE c = "A" -> "a" [] c = "B" -> "b" [] c = "C" -> "c" [] c = "D" -> "d"
      [] c = "E" -> "e" [] c = "F" -> "f" [] c = "G" -> "g" [] c = "H" -> "h"
      [] c = "I" -> "i" [] c = "J" -> "j" [] c = "K" -> "k" [] c = "L" -> "l"
      [] c = "M" -> "m" [] c = "N" -> "n" [] c = "O" -> "o" [] c = "P" -> "p"
      [] c = "Q" -> "q" [] c = "R" -> "r" [] c = "S" -> "s" [] c = "T" -> "t"
      [] c = "U" -> "u" [] c = "V" -> "v" [] c = "W" -> "w" [] c = "X" -> "x"
      [] c = "Y" -> "y" [] c = "Z" -> "z" [] OTHER -> c

RECURSIVE Lower(_)
Lower(s) ==
    IF Len(s) = 0 THEN ""
    ELSE LowerChar(SubSeq(s, 1, 1)) \o Lower(SubSeq(s, 2, Len(s)))

(***************************************************************************)
(* Sequences.                                                              *)
(***************************************************************************)
Range(seq) == {seq[i] : i \in DOMAIN seq}

\* Series.unique(): the distinct values in order of first appearance.
RECURSIVE UniqueFrom(_, _)
UniqueFrom(seq, seen) ==
    IF seq = <<>> THEN <<>>
    ELSE IF Head(seq) \in seen THEN UniqueFrom(Tail(seq), seen)
    ELSE <<Head(seq)>> \o UniqueFrom(Tail(seq), seen \cup {Head(seq)})

Unique(seq) == UniqueFrom(seq, {})

\* DataFrame.sort_values('Periods Label'): ascending by year (insertion
\* sort; the order among rows of one year is the file's).
RECURSIVE InsertByYear(_, _)
InsertByYear(sorted, row) ==
    IF sorted = <<>> THEN <<row>>
    ELSE IF Head(sorted).year <= row.year
         THEN <<Head(sorted)>> \o InsertByYear(Tail(sorted), row)
         ELSE <<row>> \o sorted

RECURSIVE SortByYear(_)
SortByYear(rows) ==
    IF rows = <<>> THEN <<>>
    ELSE InsertByYear(SortByYear(SubSeq(rows, 1, Len(rows) - 1)), rows[Len(rows)])

Labels(rows) == [i \in DOMAIN rows |-> rows[i].region]
Years(rows) == [i \in DOMAIN rows |-> rows[i].year]
Pops(rows) == [i \in DOMAIN rows |-> rows[i].m[POP]]

RegionRows(df, region) == SelectSeq(df, LAMBDA r : r.region = region)

SetMax(S) == CHOOSE x \in S : \A y \in S : y <= x
SetMin(S) == CHOOSE x \in S : \A y \in S : x <= y

(***************************************************************************)
(* Rationals <<n, d>> with d > 0, in lowest terms.                         *)
(***************************************************************************)
Abs(x) == IF x < 0 THEN -x ELSE x

RECURSIVE GCD(_, _)
GCD(a, b) == IF b = 0 THEN a ELSE GCD(b, a % b)

Rat(n, d) ==
    LET s == IF d < 0 THEN -1 ELSE 1
        g == GCD(Abs(n), Abs(d))
    IN  <<(s * n) \div g, (s * d) \div g>>

RAdd(a, b) ==
    LET g == GCD(a[2], b[2])
    IN  Rat(a[1] * (b[2] \div g) + b[1] * (a[2] \div g), (a[2] \div g) * b[2])

RTimesPct(a, pct) == Rat(a[1] * pct, a[2] * 100)

RLeq(a, b) == a[1] * b[2] <= b[1] * a[2]

RZero == <<0, 1>>

(***************************************************************************)
(* PolynomialFeatures(degree=2) + LinearRegression().fit + predict.        *)
(*                                                                         *)
(* The features of a year x are (1, x, x^2).  LinearRegression centres the *)
(* features and the target and solves the centred least-squares problem    *)
(* with scipy.linalg.lstsq, which returns the minimum-norm solution when   *)
(* the centred features are rank deficient:                                *)
(*   - three or more distinct years: the least-squares parabola, which is  *)
(*     unique; its values do not change when the years are shifted, and    *)
(*     the normal equations are solved (Cramer) in u = x - min(x);         *)
(*   - two distinct years a, b: every centred row is (x - xbar) * (0,1,s)  *)
(*     with s = a + b, so the minimum-norm coefficients are                *)
(*     beta * (0,1,s) / (1 + s^2), beta the slope of y on x;               *)
(*   - one distinct year: the centred features vanish, the coefficients    *)
(*     are 0 and the prediction is the mean of y.                          *)
(* A NaN in y, or no sample at all, makes fit raise ValueError.            *)
(***************************************************************************)
RECURSIVE SumSeq(_)
SumSeq(seq) == IF seq = <<>> THEN 0 ELSE Head(seq) + SumSeq(Tail(seq))

Det3(a, b, c, d, e, f, g, h, i) ==
    a * (e * i - f * h) - b * (d * i - f * g) + c * (d * h - e * g)

FitRaises(xs, ys) == Len(xs) = 0 \/ \E i \in DOMAIN ys : ys[i] = NaN

\* model.fit(X_poly, y): what predict needs.  num(x) / den is the fitted
\* value at x, num a polynomial of x (of u = x - x0 in the full-rank case).
FitFull(xs, ys) ==
    LET x0 == SetMin(Range(xs))
        us == [i \in DOMAIN xs |-> xs[i] - x0]
        S0 == Len(xs)
        S1 == SumSeq(us)
        S2 == SumSeq([i \in DOMAIN us |-> us[i] * us[i]])
        S3 == SumSeq([i \in DOMAIN us |-> us[i] * us[i] * us[i]])
        S4 == SumSeq([i \in DOMAIN us |-> us[i] * us[i] * us[i] * us[i]])
        T0 == SumSeq(ys)
        T1 == SumSeq([i \in DOMAIN us |-> us[i] * ys[i]])
        T2 == SumSeq([i \in DOMAIN us |-> us[i] * us[i] * ys[i]])
    IN  [x0 |-> x0,
         c0 |-> Det3(T0, S1, S2, T1, S2, S3, T2, S3, S4),
         c1 |-> Det3(S0, T0, S2, S1, T1, S3, S2, T2, S4),
         c2 |-> Det3(S0, S1, T0, S1, S2, T1, S2, S3, T2),
         den |-> Det3(S0, S1, S2, S1, S2, S3, S2, S3, S4)]

FitTwoYears(xs, ys) ==
    LET n   == Len(xs)
        s   == SetMin(Range(xs)) + SetMax(Range(xs))
        S1  == SumSeq(xs)
        S2  == SumSeq([i \in DOMAIN xs |-> xs[i] * xs[i]])
        T0  == SumSeq(ys)
        Sxy == SumSeq([i \in DOMAIN xs |-> xs[i] * ys[i]])
        var == n * S2 - S1 * S1
        cov == n * Sxy - S1 * T0
    IN  \* ybar + (cov / var) * ((x - xbar) + s * (x^2 - mean(x^2))) / (1 + s^2)
        [x0 |-> 0,
         c0 |-> T0 * var * (1 + s * s) - cov * (S1 + s * S2),
         c1 |-> cov * n,
         c2 |-> cov * n * s,
         den |-> n * var * (1 + s * s)]

FitOneYear(xs, ys) ==
    [x0 |-> 0, c0 |-> SumSeq(ys), c1 |-> 0, c2 |-> 0, den |-> Len(xs)]

Fit(xs, ys) ==
    LET k == Cardinality(Range(xs))
    IN  IF k >= 3 THEN FitFull(xs, ys)
        ELSE IF k = 2 THEN FitTwoYears(xs, ys)
        ELSE FitOneYear(xs, ys)

\* model.predict at year x
Predict(model, x) ==
    LET u == x - model.x0
    IN  Rat(model.c0 + model.c1 * u + model.c2 * u * u, model.den)

(***************************************************************************)
(* The CSV files the model is run on.  A row has the three dimension       *)
(* columns and the measure columns m.  A file is a uniform baseline (every *)
(* region has every year, on one trend) in which at most one region is     *)
(* replaced by another block: fewer years, another trend, a repeated year, *)
(* a row of another 'Sex Label', missing values, or no row at all.         *)
(***************************************************************************)
AllRegions == <<"The Netherlands", "Noord-Holland (PV)", "Zuid-Holland (PV)",
                "Fryslân (PV)", "Amsterdam", "Rotterdam", "The Hague",
                "West-Nederland (LD)">>

AllYears == 1..MaxYear
Trends == 0..2

Min2(a, b) == IF a <= b THEN a ELSE b
Max2(a, b) == IF a >= b THEN a ELSE b

Trend(t, y) ==
    CASE t = 0 -> Min2(y - 1, MaxPop)
      [] t = 1 -> Max2(MaxPop - (y - 1), 0)
      [] OTHER -> MaxPop

Inflows == {"TotalArrivals_8", "DueToImmigration_10", "DueToIntermunicipalMoves_11",
            "NaturalIncrease_7", "LiveBornChildren_3"}

MkRow(region, y, sex, t) ==
    [region |-> region, year |-> y, sex |-> sex,
     m |-> [c \in Measures |->
              IF c = POP THEN Trend(t, y)
              ELSE IF c \in Inflows THEN Trend((t + 1) % 3, y)
              ELSE Trend((t + 2) % 3, y)]]

RECURSIVE Descending(_)
Descending(S) ==
    IF S = {} THEN <<>> ELSE <<SetMax(S)>> \o Descending(S \ {SetMax(S)})

BaseBlock(region, t) ==
    [i \in 1..MaxYear |-> MkRow(region, i, TotalSex, t)]

\* the year sets of a block: none, an interval, or the first and last year
YearSets ==
    {{}, {1, MaxYear}} \cup {lo..hi : lo \in AllYears, hi \in AllYears}

Blocks ==
    [kind : {"plain"}, years : YearSets, t : Trends]
      \cup [kind : {"repeated", "men", "nanpop", "nanall"}, years : {AllYears}, t : {1}]

BlockRows(region, b) ==
    LET ys == Descending(b.years)
        plain == [i \in DOMAIN ys |-> MkRow(region, ys[i], TotalSex, b.t)]
    IN  CASE b.kind = "plain" -> plain
          [] b.kind = "repeated" ->
                plain \o <<MkRow(region, MaxYear, TotalSex, 0)>>
          [] b.kind = "men" ->
                <<MkRow(region, MaxYear, "Men", 2)>>
                  \o SubSeq(plain, 2, Len(plain))
                  \o <<MkRow(region, 1, "Men", 2)>>
          [] b.kind = "nanpop" ->
                [i \in DOMAIN plain |->
                   IF plain[i].year = 1
                   THEN [plain[i] EXCEPT !.m[POP] = NaN] ELSE plain[i]]
          [] OTHER ->
                [i \in DOMAIN plain |->
                   IF plain[i].year = 1
                   THEN [plain[i] EXCEPT !.m = [c \in Measures |-> NaN]]
                   ELSE plain[i]]

RECURSIVE Concat(_)
Concat(seqs) == IF seqs = <<>> THEN <<>> ELSE Head(seqs) \o Concat(Tail(seqs))

BuildRows(t, d, b) ==
    Concat([i \in DOMAIN AllRegions |->
              IF i = d THEN BlockRows(AllRegions[i], b)
              ELSE BaseBlock(AllRegions[i], t)])

Missing == [exists |-> FALSE, rows |-> <<>>]

FilesVarying(regions) ==
    {Missing, [exists |-> TRUE, rows |-> <<>>]}
      \cup {[exists |-> TRUE, rows |-> BuildRows(t, d, b)] :
               t \in Trends, d \in regions, b \in Blocks}

\* any region varies; for the forecasts: the country, a province, the
\* province and the municipality that are default selections
AllFiles == FilesVarying(DOMAIN AllRegions)
ForecastFiles == FilesVarying({1, 2, 4, 5})

\* The files of the runs in which the file is also replaced between runs:
\* no file, and the baseline on each trend.
Files ==
    {Missing} \cup {[exists |-> TRUE, rows |-> BuildRows(t, 1, [kind |-> "plain", years |-> AllYears, t |-> t])] :
                       t \in Trends}

(***************************************************************************)
(* State.                                                                  *)
(***************************************************************************)
VARIABLES
    csv,      \* "250112_CLEAN_population_regional_NL.csv" on disk
    cache,    \* st.cache_data's entry for load_data()
    reads,    \* completed pd.read_csv calls of this process
    view,     \* view_type of the latest run
    page,     \* what the latest run put on the page, in order
    outcome,  \* "ok", or the exception that ended the latest run
    charts,   \* the figures of the Forecast view
    detail,   \* the year statistics of the National/Regional view
    widgets   \* the widget values of the latest run

vars == <<csv, cache, reads, view, page, outcome, charts, detail, widgets>>

(***************************************************************************)
(* load_data: pd.read_csv infers int64 for a measure column without        *)
(* missing values and float64 for one with a NaN; the cached frame keeps   *)
(* those dtypes.  A call that raises stores nothing.                       *)
(***************************************************************************)
FloatColumns(rows) == {c \in Measures : \E i \in DOMAIN rows : rows[i].m[c] = NaN}

SexFilter(rows) == SelectSeq(rows, LAMBDA r : r.sex = TotalSex)

read_csv(file) == [df |-> SexFilter(file.rows), floats |-> FloatColumns(file.rows)]

NoCache == [loaded |-> FALSE, df |-> <<>>, floats |-> {}]

\* load_data without @st.cache_data: every call reads the file
load_data_uncached ==
    IF ~csv.exists
    THEN [raises |-> "FileNotFoundError", frame |-> [df |-> <<>>, floats |-> {}],
          cache |-> cache, reads |-> reads]
    ELSE [raises |-> "", frame |-> read_csv(csv),
          cache |-> [loaded |-> TRUE, df |-> read_csv(csv).df,
                     floats |-> read_csv(csv).floats],
          reads |-> reads + 1]

\* load_data() called with the cache as it is: what it raises, what it
\* returns, the cache and the read count after it.
load_data ==
    IF cache.loaded
    THEN [raises |-> "", frame |-> [df |-> cache.df, floats |-> cache.floats],
          cache |-> cache, reads |-> reads]
    ELSE IF ~csv.exists
    THEN [raises |-> "FileNotFoundError", frame |-> [df |-> <<>>, floats |-> {}],
          cache |-> cache, reads |-> reads]
    ELSE [raises |-> "", frame |-> read_csv(csv),
          cache |-> [loaded |-> TRUE, df |-> read_csv(csv).df,
                     floats |-> read_csv(csv).floats],
          reads |-> reads + 1]

(***************************************************************************)
(* The forecast figures.                                                   *)
(***************************************************************************)
last_historical_year(df) == SetMax(Range(Years(df)))

\* list(range(last, last + 10))
future_years_from_last(last) == [i \in 1..HorizonYears |-> last + i - 1]

\* list(range(last + 1, last + 11))
future_years(last) == [i \in 1..HorizonYears |-> last + i]

\* model.predict(poly.transform(future_X)) for the rows of one region.
predictions(region_data, years) ==
    LET model == Fit(Years(region_data), Pops(region_data))
    IN  [i \in DOMAIN years |-> Predict(model, years[i])]

\* a fit that refuses a region with fewer than three rows
RegionFitRaisesBelowThree(region_data) ==
    FitRaises(Years(region_data), Pops(region_data)) \/ Len(region_data) < 3

RegionFitRaises(region_data) == FitRaises(Years(region_data), Pops(region_data))

\* df[df['Regions Label'].str.contains('\\(PV\\)')]
ProvinceRows(df) == SelectSeq(df, LAMBDA r : Contains(r.region, "(PV)"))

\* the loop over provinces['Regions Label'] without .unique()
FittedProvincesEveryRow(df) == Labels(ProvinceRows(df))

\* the regions fitted by create_prediction_chart, in loop order
FittedProvinces(df) == Unique(Labels(ProvinceRows(df)))

\* np.sum(all_predictions, axis=0)
RECURSIVE SumPredictions(_)
SumPredictions(all_predictions) ==
    IF Len(all_predictions) = 1 THEN Head(all_predictions)
    ELSE LET rest == SumPredictions(Tail(all_predictions))
         IN  [i \in DOMAIN rest |-> RAdd(Head(all_predictions)[i], rest[i])]

NoNational ==
    [drawn |-> FALSE, fitted |-> <<>>, historical_x |-> <<>>, historical_y |-> <<>>,
     future_years |-> <<>>, total_predictions |-> <<>>,
     upper |-> <<>>, lower |-> <<>>]

create_prediction_chart(df) ==
    IF df = <<>> THEN [raises |-> "TypeError", fig |-> NoNational]
    ELSE
    LET provinces == ProvinceRows(df)
        years     == future_years(last_historical_year(df))
        fitted    == FittedProvinces(df)
        all_predictions ==
            [k \in DOMAIN fitted |->
               predictions(RegionRows(provinces, fitted[k]), years)]
        total_predictions == SumPredictions(all_predictions)
        national_data == SortByYear(RegionRows(df, Netherlands))
    IN  IF \E k \in DOMAIN fitted : RegionFitRaises(RegionRows(provinces, fitted[k]))
        THEN [raises |-> "ValueError", fig |-> NoNational]
        ELSE IF fitted = <<>>
        THEN [raises |-> "ValueError", fig |-> NoNational]
        ELSE [raises |-> "",
              fig |-> [drawn |-> TRUE, fitted |-> fitted,
                       historical_x |-> Years(national_data),
                       historical_y |-> Pops(national_data),
                       future_years |-> years,
                       total_predictions |-> total_predictions,
                       upper |-> [i \in DOMAIN years |->
                                    RTimesPct(total_predictions[i], BandHighPct)],
                       lower |-> [i \in DOMAIN years |->
                                    RTimesPct(total_predictions[i], BandLowPct)]]]

NoComparison == [drawn |-> FALSE, future_years |-> <<>>, traces |-> <<>>]

\* The loop shared, line for line, by the provincial and the municipal
\* figure: one historical and one prediction trace per selected region.
RegionTraces(df, selected) ==
    LET years == future_years(last_historical_year(df))
    IN  IF \E r \in selected : RegionFitRaises(RegionRows(df, r))
        THEN [raises |-> "ValueError", fig |-> NoComparison]
        ELSE [raises |-> "",
              fig |-> [drawn |-> TRUE, future_years |-> years,
                       traces |-> [r \in selected |->
                          LET region_data == SortByYear(RegionRows(df, r))
                          IN  [historical_x |-> Years(region_data),
                               historical_y |-> Pops(region_data),
                               prediction_x |-> years,
                               prediction_y |-> predictions(region_data, years)]]]]

create_provincial_prediction_chart(df, selected_provinces) ==
    RegionTraces(df, selected_provinces)

create_municipal_prediction_chart(df, selected_municipalities) ==
    RegionTraces(df, selected_municipalities)

NoCharts == [national |-> NoNational, provincial |-> NoComparison,
             municipal |-> NoComparison]

(***************************************************************************)
(* The year statistics.                                                    *)
(***************************************************************************)
\* the operands of the subtraction exchanged
SubSwapped(a, b) == IF a = NaN \/ b = NaN THEN NaN ELSE b - a

\* numpy arithmetic on values that may be NaN
Sub(a, b) == IF a = NaN \/ b = NaN THEN NaN ELSE a - b

\* format_number: "N/A" for NaN, else f"{int(num):,}" (the measures are
\* whole numbers, which int() leaves as they are).
format_number(num) ==
    IF num = NaN THEN [text |-> "N/A", int |-> 0] ELSE [text |-> "int", int |-> num]

\* round half to even of a / b, for a >= 0 and b > 0
RoundHalfEven(a, b) ==
    LET q == a \div b
        r == a % b
    IN  IF 2 * r < b THEN q
        ELSE IF 2 * r > b THEN q + 1
        ELSE IF q % 2 = 0 THEN q ELSE q + 1

\* f"{(pop_change / prev) * 100:.1f}": numpy division, so a zero divisor
\* gives inf, -inf or nan and raises nothing.
format_pct(pop_change, prev) ==
    IF pop_change = NaN \/ prev = NaN THEN [text |-> "nan", neg |-> FALSE, tenths |-> 0]
    ELSE IF prev = 0
    THEN IF pop_change > 0 THEN [text |-> "inf", neg |-> FALSE, tenths |-> 0]
         ELSE IF pop_change < 0 THEN [text |-> "-inf", neg |-> TRUE, tenths |-> 0]
         ELSE [text |-> "nan", neg |-> FALSE, tenths |-> 0]
    ELSE [text |-> "tenths",
          neg |-> (pop_change < 0) # (prev < 0) /\ pop_change # 0,
          tenths |-> RoundHalfEven(1000 * Abs(pop_change), Abs(prev))]

Dash == [text |-> "-"]

MetricLabels ==
    {"Total Population", "total arrivals", "international immigration",
     "municipal arrivals", "total departures", "international emigration",
     "municipal departures", "total movement balance",
     "international migration balance", "municipal migration balance",
     "natural change", "births", "deaths"}

\* The measure an st.metric shows (a balance: the two it is the difference of).
MetricColumns(label) ==
    CASE label = "Total Population" -> <<POP>>
      [] label = "total arrivals" -> <<"TotalArrivals_8">>
      [] label = "international immigration" -> <<"DueToImmigration_10">>
      [] label = "municipal arrivals" -> <<"DueToIntermunicipalMoves_11">>
      [] label = "total departures" -> <<"TotalDeparturesIncludingAdministra_12">>
      [] label = "international emigration" -> <<"DueToEmigrationIncludingAdministr_14">>
      [] label = "municipal departures" -> <<"DueToIntermunicipalMoves_16">>
      [] label = "total movement balance" ->
            <<"TotalArrivals_8", "TotalDeparturesIncludingAdministra_12">>
      [] label = "international migration balance" ->
            <<"DueToImmigration_10", "DueToEmigrationIncludingAdministr_14">>
      [] label = "municipal migration balance" ->
            <<"DueToIntermunicipalMoves_11", "DueToIntermunicipalMoves_16">>
      [] label = "natural change" -> <<"NaturalIncrease_7">>
      [] label = "births" -> <<"LiveBornChildren_3">>
      [] OTHER -> <<"Deaths_5">>

MetricValue(row, label) ==
    LET cols == MetricColumns(label)
    IN  IF Len(cols) = 1 THEN row.m[cols[1]]
        ELSE Sub(row.m[cols[1]], row.m[cols[2]])

\* display_metrics: for every st.metric its value and its delta.
display_metrics(year_data, prev_year_data, is_first_year) ==
    [label \in MetricLabels |->
       LET change == Sub(MetricValue(year_data, label),
                         MetricValue(prev_year_data, label))
       IN  [value |-> format_number(MetricValue(year_data, label)),
            delta |->
               IF is_first_year THEN Dash
               ELSE IF label = "Total Population"
               THEN [text |-> "change (pct%)",
                     change |-> format_number(change),
                     pct |-> format_pct(change, prev_year_data.m[POP])]
               ELSE [text |-> "change", change |-> format_number(change)]]]

\* prev_year_data = year_data.copy(), then 0 in every entry that is an
\* instance of (int, float): an entry of a float64 column is a np.float64,
\* which is a float; an entry of an int64 column (the year, a measure
\* without missing values) is a np.int64, which is neither.
ZeroedCopy(year_data, floats) ==
    [year_data EXCEPT !.m = [c \in Measures |-> IF c \in floats THEN 0 ELSE @[c]]]

\* prev_year_data = year_data, without .copy(): the zeros land in both
FirstYearRecordsInPlace(year_data, floats) ==
    [year_data |-> ZeroedCopy(year_data, floats),
     prev_year_data |-> ZeroedCopy(year_data, floats)]

\* Lines 619-623: the two records display_metrics gets when there is no
\* previous year.  Series.copy() is a deep copy: year_data keeps its values.
FirstYearRecords(year_data, floats) ==
    [year_data |-> year_data,
     prev_year_data |-> ZeroedCopy(year_data, floats)]

NoDetail ==
    [shown |-> FALSE, region_name |-> "", selected_year |-> 0,
     year_data |-> <<>>, prev_year_data |-> <<>>, is_first_year |-> FALSE,
     metrics |-> <<>>]

(***************************************************************************)
(* main(): one execution of the script per user interaction.  The widget   *)
(* values are the user's: a multiselect returns a subset of its options, a *)
(* selectbox one of its options, or None when it has none.  st.multiselect *)
(* raises StreamlitAPIException when a default value is not an option.  An *)
(* uncaught exception ends the run; Streamlit shows it in place of the     *)
(* element that raised.                                                    *)
(***************************************************************************)
SearchTerms == {"", "a", "DAM", "zzz"}

\* what the user leaves selected in a multiselect: nothing, one option, or
\* all of them
Selections(options) == {{}, options} \cup {{r} : r \in options}
None == "None"

RegionLabels(df) == Range(Labels(df))

\* sorted(df[df['Regions Label'].str.contains('\\(PV\\)')]['Regions Label'].unique())
ProvinceOptions(df) == {r \in RegionLabels(df) : Contains(r, "(PV)")}

\* no parenthesis in the label, and not the country
MunicipalityOptions(df) ==
    {r \in RegionLabels(df) : ~Contains(r, "(") /\ r # Netherlands}

\* [m for m in municipalities if search_term.lower() in m.lower()] if search_term
\* else municipalities
Filtered(options, search_term) ==
    IF search_term = "" THEN options
    ELSE {r \in options : Contains(Lower(r), Lower(search_term))}

\* region_type[-3:-1], then str.contains(f'\\({type_code}\\)')
TypeCode(region_type) == SubSeq(region_type, Len(region_type) - 2, Len(region_type) - 1)

TypeOptions(df, region_type) ==
    {r \in RegionLabels(df) : Contains(r, "(" \o TypeCode(region_type) \o ")")}

NoWidgets ==
    [region_type |-> "", search_term |-> "", selected_region |-> "",
     selected_provinces |-> {}, selected_municipalities |-> {}]

Emit(o, pg, ch, de, w) ==
    /\ outcome' = o
    /\ page' = pg
    /\ charts' = ch
    /\ detail' = de
    /\ widgets' = w

Raise(exception, pg, ch, w) == Emit(exception, pg \o <<"exception">>, ch, NoDetail, w)

Loaded(ld, v) ==
    /\ outcome = "none"
    /\ cache' = ld.cache
    /\ reads' = ld.reads
    /\ view' = v
    /\ UNCHANGED csv

\* view_type == "Forecast"
mainForecast ==
    LET ld   == load_data
        df   == ld.frame.df
        head == <<"title", "radio", "subheader", "markdown">>
        nat  == create_prediction_chart(df)
        pg1  == head \o <<"plotly_chart national", "subheader">>
        ch1  == [NoCharts EXCEPT !.national = nat.fig]
        provinces == ProvinceOptions(df)
    IN  /\ Loaded(ld, "Forecast")
        /\ IF ld.raises # "" THEN Raise(ld.raises, head, NoCharts, NoWidgets)
           ELSE IF nat.raises # "" THEN Raise(nat.raises, head, NoCharts, NoWidgets)
           ELSE IF ~(default_provinces \subseteq provinces)
           THEN Raise("StreamlitAPIException", pg1, ch1, NoWidgets)
           ELSE
           \E selected_provinces \in Selections(provinces), search_term \in SearchTerms :
             LET prov == create_provincial_prediction_chart(df, selected_provinces)
                 pg2  == pg1 \o <<"multiselect provinces">>
                 pg3  == pg2 \o (IF selected_provinces # {}
                                 THEN <<"plotly_chart provincial">> ELSE <<"info">>)
                           \o <<"subheader", "text_input">>
                 ch2  == [ch1 EXCEPT !.provincial =
                            IF selected_provinces # {} THEN prov.fig ELSE NoComparison]
                 w1   == [NoWidgets EXCEPT !.selected_provinces = selected_provinces]
                 w2   == [w1 EXCEPT !.search_term = search_term]
                 filtered_municipalities ==
                     Filtered(MunicipalityOptions(df), search_term)
             IN  IF selected_provinces # {} /\ prov.raises # ""
                 THEN Raise(prov.raises, pg2, ch1, w1)
                 ELSE IF ~(default_municipalities \subseteq filtered_municipalities)
                 THEN Raise("StreamlitAPIException", pg3, ch2, w2)
                 ELSE
                 \E selected_municipalities \in Selections(filtered_municipalities) :
                   LET muni == create_municipal_prediction_chart(df, selected_municipalities)
                       pg4  == pg3 \o <<"multiselect municipalities">>
                       w3   == [w2 EXCEPT !.selected_municipalities =
                                              selected_municipalities]
                   IN  IF selected_municipalities = {}
                       THEN Emit("ok", pg4 \o <<"info">>, ch2, NoDetail, w3)
                       ELSE IF muni.raises # "" THEN Raise(muni.raises, pg4, ch2, w3)
                       ELSE Emit("ok", pg4 \o <<"plotly_chart municipal">>,
                                 [ch2 EXCEPT !.municipal = muni.fig], NoDetail, w3)

\* Lines 590-641: the three charts of data_to_plot, the year selector, the
\* metrics and the footer.  data_to_plot is sorted by year, which leaves the
\* order of two rows of one year open: iloc[0] is any of them.
YearStatistics(pg, frame, data_to_plot, region_name, w) ==
    LET available_years == Range(Years(data_to_plot))
        pg1 == pg \o <<"plotly_chart population", "plotly_chart total_moves",
                       "plotly_chart natural_change", "selectbox year">>
        foot == <<"metrics", "markdown", "markdown">>
    IN  IF available_years = {} THEN Raise("IndexError", pg1, NoCharts, w)
        ELSE
        \E selected_year \in available_years :
        \E i \in {k \in DOMAIN data_to_plot : data_to_plot[k].year = selected_year} :
          LET year_data == data_to_plot[i]
              prev_year_df ==
                  SelectSeq(data_to_plot, LAMBDA r : r.year = selected_year - 1)
              first_year == FirstYearRecords(year_data, frame.floats)
              shown(cur, prev, first) ==
                  [shown |-> TRUE, region_name |-> region_name,
                   selected_year |-> selected_year, year_data |-> cur,
                   prev_year_data |-> prev, is_first_year |-> first,
                   metrics |-> display_metrics(cur, prev, first)]
          IN  IF Len(prev_year_df) > 0
              THEN \E j \in DOMAIN prev_year_df :
                     Emit("ok", pg1 \o foot, NoCharts,
                          shown(year_data, prev_year_df[j], FALSE), w)
              ELSE Emit("ok", pg1 \o <<"warning">> \o foot, NoCharts,
                        shown(first_year.year_data, first_year.prev_year_data, TRUE), w)

\* view_type == "National"
mainNational ==
    LET ld   == load_data
        head == <<"title", "radio", "subheader", "markdown">>
    IN  /\ Loaded(ld, "National")
        /\ IF ld.raises # "" THEN Raise(ld.raises, head, NoCharts, NoWidgets)
           ELSE YearStatistics(head, ld.frame,
                               SortByYear(RegionRows(ld.frame.df, Netherlands)),
                               Netherlands, NoWidgets)

\* view_type == "Regional"
mainRegional ==
    LET ld   == load_data
        df   == ld.frame.df
        head == <<"title", "radio">>
    IN  /\ Loaded(ld, "Regional")
        /\ IF ld.raises # "" THEN Raise(ld.raises, head, NoCharts, NoWidgets)
           ELSE
           \E region_type \in RegionTypes :
           \E search_term \in (IF region_type = "Municipalities"
                               THEN SearchTerms ELSE {""}) :
             LET municipal == region_type = "Municipalities"
                 options == IF municipal
                            THEN Filtered(MunicipalityOptions(df), search_term)
                            ELSE TypeOptions(df, region_type)
                 pg1 == head \o <<"selectbox level">>
                             \o (IF municipal THEN <<"text_input">> ELSE <<>>)
                             \o <<"selectbox region">>
             IN  \E selected_region \in (IF options = {} THEN {None} ELSE options) :
                   YearStatistics(pg1, ld.frame,
                                  IF selected_region = None THEN <<>>
                                  ELSE SortByYear(RegionRows(df, selected_region)),
                                  selected_region,
                                  [NoWidgets EXCEPT !.region_type = region_type,
                                                    !.search_term = search_term,
                                                    !.selected_region = selected_region])

\* The user interacts with a widget: Streamlit starts the script again, on
\* an empty page.
rerun ==
    /\ outcome # "none"
    /\ outcome' = "none"
    /\ page' = <<>>
    /\ charts' = NoCharts
    /\ detail' = NoDetail
    /\ widgets' = NoWidgets
    /\ UNCHANGED <<csv, cache, reads, view>>

\* The file is replaced, created or removed between two runs.
FileReplaced ==
    /\ outcome = "none"
    /\ csv' \in Files \ {csv}
    /\ UNCHANGED <<cache, reads, view, page, outcome, charts, detail, widgets>>

Started ==
    /\ cache = NoCache
    /\ reads = 0
    /\ view = "none"
    /\ page = <<>>
    /\ outcome = "none"
    /\ charts = NoCharts
    /\ detail = NoDetail
    /\ widgets = NoWidgets

Init == csv \in Files /\ Started

Next == mainForecast \/ mainNational \/ mainRegional \/ rerun \/ FileReplaced

Spec == Init /\ [][Next]_vars

\* The first run of a process, on every file of a larger family: the
\* Forecast view, and the National and Regional views.
InitForecast == csv \in ForecastFiles /\ Started

SpecForecast == InitForecast /\ [][mainForecast]_vars

InitStatistics == csv \in AllFiles /\ Started

NextStatistics == mainNational \/ mainRegional

SpecStatistics == InitStatistics /\ [][NextStatistics]_vars

\* Runs and reruns of the National and the Regional view on files in which
\* a region has a record without values, which makes every measure column a
\* float64 column, the only columns the first-year zeroing changes.
RerunFiles ==
    {[exists |-> TRUE, rows |-> BuildRows(t, d, b)] :
        t \in Trends, d \in {1, 8},
        b \in {[kind |-> k, years |-> AllYears, t |-> 1] : k \in {"nanall", "nanpop"}}}

InitReruns == csv \in RerunFiles /\ Started

NextReruns == mainNational \/ mainRegional \/ rerun

SpecReruns == InitReruns /\ [][NextReruns]_vars

(***************************************************************************)
(* Properties of the forecasts (SpecForecast).                             *)
(***************************************************************************)
\* the frame a first run works on
FileFrame == SexFilter(csv.rows)

FileProvinces == {r \in RegionLabels(FileFrame) : Contains(r, "(PV)")}

FileLastYear == SetMax(Range(Years(FileFrame)))

\* the predictions, for the 10 years after the last one, of the model
\* fitted to the rows of one region
OwnPredictions(region) ==
    LET rows  == RegionRows(FileFrame, region)
        model == Fit(Years(rows), Pops(rows))
    IN  [i \in 1..10 |-> Predict(model, FileLastYear + i)]

RECURSIVE SumOwnPredictions(_)
SumOwnPredictions(regions) ==
    IF regions = {} THEN [i \in 1..10 |-> RZero]
    ELSE LET r    == CHOOSE r \in regions : TRUE
             own  == OwnPredictions(r)
             rest == SumOwnPredictions(regions \ {r})
         IN  [i \in 1..10 |-> RAdd(own[i], rest[i])]

\* C1: the national forecast of every future year is the sum, over the
\* distinct "(PV)" regions, of the region's own fitted prediction for that
\* year; only "(PV)" regions are fitted, each once, and the rows of 'The
\* Netherlands' are the Historical trace.
C1_NationalIsSumOfProvinceFits ==
    charts.national.drawn =>
        LET fig == charts.national
        IN  /\ Range(fig.fitted) = FileProvinces
            /\ Len(fig.fitted) = Cardinality(FileProvinces)
            /\ Netherlands \notin Range(fig.fitted)
            /\ fig.total_predictions = SumOwnPredictions(FileProvinces)
            /\ fig.historical_x = Years(SortByYear(RegionRows(FileFrame, Netherlands)))
            /\ fig.historical_y = Pops(SortByYear(RegionRows(FileFrame, Netherlands)))

\* C1 witness: three provinces with two different forecasts, whose sum is
\* not what a fit of the national series itself predicts.
C1_Witness ==
    /\ charts.national.drawn
    /\ Cardinality(FileProvinces) = 3
    /\ RegionRows(FileFrame, Netherlands) # <<>>
    /\ \E p, q \in FileProvinces : OwnPredictions(p) # OwnPredictions(q)
    /\ charts.national.total_predictions # OwnPredictions(Netherlands)

ComparisonFigures == {"provincial", "municipal"}

\* C2: in the three forecast figures the predicted years are the 10
\* consecutive years after the last year of the frame, and every region's
\* prediction has one value per future year.
C2_FutureYears ==
    LET expected == [i \in 1..10 |-> FileLastYear + i]
    IN  /\ charts.national.drawn =>
              /\ charts.national.future_years = expected
              /\ Len(charts.national.total_predictions) = 10
        /\ \A name \in ComparisonFigures :
              LET fig == charts[name] IN
              fig.drawn =>
                 /\ fig.future_years = expected
                 /\ \A i \in 1..9 : fig.future_years[i + 1] = fig.future_years[i] + 1
                 /\ \A r \in DOMAIN fig.traces :
                       /\ fig.traces[r].prediction_x = expected
                       /\ Len(fig.traces[r].prediction_y) = 10

\* C2 witness: the three figures are drawn, and a plotted region ends before
\* the last year of the frame.
C2_Witness ==
    /\ charts.national.drawn /\ charts.provincial.drawn /\ charts.municipal.drawn
    /\ \E r \in DOMAIN charts.municipal.traces :
          /\ charts.municipal.traces[r].historical_x # <<>>
          /\ SetMax(Range(charts.municipal.traces[r].historical_x)) < FileLastYear

\* C3: for every region of the provincial and the municipal figure, the
\* historical years followed by the predicted years are contiguous and
\* strictly increasing.
C3_FullSeriesContiguous ==
    \A name \in ComparisonFigures :
       LET fig == charts[name] IN
       fig.drawn =>
          \A r \in DOMAIN fig.traces :
             LET full == fig.traces[r].historical_x \o fig.traces[r].prediction_x
             IN  \A i \in 1..(Len(full) - 1) : full[i + 1] = full[i] + 1

\* C4: the band of the national projection is prediction * 0.95 and
\* prediction * 1.05, and lower <= prediction <= upper at every point.
C4_BandEnclosesPrediction ==
    charts.national.drawn =>
        \A i \in 1..HorizonYears :
           LET fig == charts.national
               p   == fig.total_predictions[i]
           IN  /\ fig.lower[i] = Rat(p[1] * 95, p[2] * 100)
               /\ fig.upper[i] = Rat(p[1] * 105, p[2] * 100)
               /\ RLeq(fig.lower[i], p)
               /\ RLeq(p, fig.upper[i])

ForecastFigures == {"national", "provincial", "municipal"}

\* the regions a figure's builder fits, once the run has called it
RegionsFitted(name) ==
    CASE name = "national" ->
            IF csv.exists /\ outcome # "none" THEN FileProvinces ELSE {}
      [] name = "provincial" ->
            IF "multiselect provinces" \in Range(page)
            THEN widgets.selected_provinces ELSE {}
      [] OTHER ->
            IF "multiselect municipalities" \in Range(page)
            THEN widgets.selected_municipalities ELSE {}

MissingPopulation(region) ==
    \E k \in DOMAIN FileFrame :
       FileFrame[k].region = region /\ FileFrame[k].m[POP] = NaN

\* the builder returned and the figure is on the page, with 10 predicted
\* values for each region; the municipal figure is the last step of the run
FigureEmitted(name) ==
    /\ charts[name].drawn
    /\ ("plotly_chart " \o name) \in Range(page)
    /\ name = "municipal" => outcome = "ok"
    /\ IF name = "national" THEN Len(charts.national.total_predictions) = 10
       ELSE \A r \in RegionsFitted(name) :
               /\ Len(charts[name].traces[r].prediction_y) = 10
               /\ charts[name].traces[r].prediction_y = OwnPredictions(r)

\* C11 as stated: whatever the number of rows of the regions a figure
\* fits (one row is enough), the quadratic fit is applied to each of them
\* and 10 predicted values are emitted, with no error outcome.
C11_FitNeverFails ==
    \A name \in ForecastFigures :
       RegionsFitted(name) # {} => FigureEmitted(name)

\* C11, amended: the same for the regions none of whose historical rows
\* lacks its population; a row without population makes the fit raise.
C11_FitWithoutDataCheck ==
    \A name \in ForecastFigures :
       (/\ RegionsFitted(name) # {}
        /\ \A r \in RegionsFitted(name) : ~MissingPopulation(r)) =>
           FigureEmitted(name)

\* C11 witness: the municipal figure is drawn for a municipality that has
\* one historical row only; its prediction is that row's population in
\* each of the 10 years.
C11_Witness ==
    /\ outcome = "ok"
    /\ charts.municipal.drawn
    /\ \E r \in widgets.selected_municipalities :
          /\ Len(RegionRows(FileFrame, r)) = 1
          /\ Len(charts.municipal.traces[r].prediction_y) = 10
          /\ \A i \in 1..10 :
                charts.municipal.traces[r].prediction_y[i]
                   = Rat(RegionRows(FileFrame, r)[1].m[POP], 1)

(***************************************************************************)
(* Properties of the year statistics (SpecStatistics).                     *)
(***************************************************************************)
\* the records of the plotted region for the year before the selected one
PreviousRecords ==
    {r \in Range(FileFrame) :
        r.region = detail.region_name /\ r.year = detail.selected_year - 1}

\* C5: without a record for selected_year - 1 the previous-year record has
\* every measure zero, is_first_year is True and every metric shows "-" as
\* its delta; with one, is_first_year is False and that record is used.
C5_FirstYearPolicy ==
    detail.shown =>
        IF PreviousRecords = {}
        THEN /\ detail.is_first_year
             /\ \A c \in Measures : detail.prev_year_data.m[c] = 0
             /\ \A label \in MetricLabels : detail.metrics[label].delta = Dash
        ELSE /\ ~detail.is_first_year
             /\ detail.prev_year_data \in PreviousRecords

\* C6: when the previous-year population, the divisor of the percentage, is
\* zero, because the year before has no record or because its record has a
\* population of zero, the delta is reported as "N/A" and nothing is raised.
C6_ZeroDivisorReportsNA ==
    (/\ detail.shown
     /\ \/ PreviousRecords = {}
        \/ detail.prev_year_data \in PreviousRecords
             /\ detail.prev_year_data.m[POP] = 0) =>
        LET d == detail.metrics["Total Population"].delta
        IN  /\ outcome = "ok"
            /\ \/ d.text = "N/A"
               \/ d.text = "change (pct%)" /\ d.pct.text = "N/A"

\* the delta of a metric shows cur - prev ("N/A" when one of them is missing)
ShowsDifference(label, cur, prev) ==
    LET d == detail.metrics[label].delta
    IN  /\ d.text \in {"change", "change (pct%)"}
        /\ IF cur = NaN \/ prev = NaN THEN d.change.text = "N/A"
           ELSE d.change = [text |-> "int", int |-> cur - prev]

Balance(row, plus, minus) ==
    IF row.m[plus] = NaN \/ row.m[minus] = NaN THEN NaN
    ELSE row.m[plus] - row.m[minus]

\* C7: with a previous-year record of non-zero population, the percentage
\* of Total Population is (curr - prev) / prev * 100 to one decimal, and the
\* delta of every other metric is the current measure minus the previous
\* one (of a balance: the current balance minus the previous balance).
C7_DeltasAreDifferences ==
    (/\ detail.shown
     /\ detail.prev_year_data \in PreviousRecords
     /\ detail.prev_year_data.m[POP] \notin {0, NaN}) =>
        LET y == detail.year_data
            p == detail.prev_year_data
            c == y.m[POP]
            q == p.m[POP]
            pct == detail.metrics["Total Population"].delta.pct
            Same(label, col) == ShowsDifference(label, y.m[col], p.m[col])
            Bal(label, plus, minus) ==
                ShowsDifference(label, Balance(y, plus, minus), Balance(p, plus, minus))
        IN  /\ Same("Total Population", POP)
            /\ IF c = NaN THEN pct.text = "nan"
               ELSE /\ pct.text = "tenths"
                    /\ 2 * Abs(pct.tenths * Abs(q) - 1000 * Abs(c - q)) <= Abs(q)
                    /\ pct.neg = ((c - q < 0) # (q < 0) /\ c # q)
            /\ Same("total arrivals", "TotalArrivals_8")
            /\ Same("international immigration", "DueToImmigration_10")
            /\ Same("municipal arrivals", "DueToIntermunicipalMoves_11")
            /\ Same("total departures", "TotalDeparturesIncludingAdministra_12")
            /\ Same("international emigration", "DueToEmigrationIncludingAdministr_14")
            /\ Same("municipal departures", "DueToIntermunicipalMoves_16")
            /\ Bal("total movement balance",
                   "TotalArrivals_8", "TotalDeparturesIncludingAdministra_12")
            /\ Bal("international migration balance",
                   "DueToImmigration_10", "DueToEmigrationIncludingAdministr_14")
            /\ Bal("municipal migration balance",
                   "DueToIntermunicipalMoves_11", "DueToIntermunicipalMoves_16")
            /\ Same("natural change", "NaturalIncrease_7")
            /\ Same("births", "LiveBornChildren_3")
            /\ Same("deaths", "Deaths_5")

\* C7 witness: the population fell from 3 to 2, shown as -1 (-33.3%), and
\* the total movement balance changed.
C7_Witness ==
    /\ detail.shown
    /\ detail.prev_year_data \in PreviousRecords
    /\ detail.prev_year_data.m[POP] = 3
    /\ detail.year_data.m[POP] = 2
    /\ detail.metrics["Total Population"].delta.pct
         = [text |-> "tenths", neg |-> TRUE, tenths |-> 333]
    /\ detail.metrics["total movement balance"].delta.change.text = "int"
    /\ detail.metrics["total movement balance"].delta.change.int # 0

\* the positions, in the frame load_data returned, of the records of the
\* plotted region for a year
RecordsOf(year) ==
    {k \in DOMAIN cache.df :
        cache.df[k].region = detail.region_name /\ cache.df[k].year = year}

\* every record of the frame that reaches the views is a total over the sexes
OnlyTotalSexReachesViews ==
    /\ cache.loaded => \A k \in DOMAIN cache.df : cache.df[k].sex = TotalSex
    /\ detail.shown =>
          detail.year_data.sex = TotalSex /\ detail.prev_year_data.sex = TotalSex

\* C12: every record that reaches a view has Sex Label 'Total male and
\* female', the plotted region has at most one such record per year, and
\* the selected-year record is the only record of that region and year.
C12_OneRecordPerYear ==
    /\ OnlyTotalSexReachesViews
    /\ detail.shown =>
          /\ \A year \in AllYears : Cardinality(RecordsOf(year)) <= 1
          /\ \A k \in RecordsOf(detail.selected_year) :
                cache.df[k] = detail.year_data

(***************************************************************************)
(* Properties of the runs of one process (Spec).                           *)
(***************************************************************************)
\* C8: when the file is missing the run ends in the error and nothing else
\* is on the page, neither before the failing load_data call nor after it.
C8_NothingRenderedOnMissingFile ==
    outcome = "FileNotFoundError" => page = <<"exception">>

\* C9: a run in which no province or no municipality is selected, or in
\* which the municipality search of the Regional view matches nothing,
\* skips the section and completes without an error.
C9_EmptySelectionCompletes ==
    /\ (/\ view = "Forecast"
        /\ "multiselect provinces" \in Range(page)
        /\ widgets.selected_provinces = {}) =>
           /\ ~charts.provincial.drawn
           /\ "text_input" \in Range(page)
    /\ (/\ view = "Forecast"
        /\ "multiselect municipalities" \in Range(page)
        /\ widgets.selected_municipalities = {}) =>
           /\ ~charts.municipal.drawn
           /\ outcome = "ok"
    /\ (/\ view = "Regional"
        /\ widgets.region_type = "Municipalities"
        /\ widgets.selected_region = None) =>
           outcome = "ok"

\* C10: the file is read at most once in a process: the first load_data
\* call that finds it reads and filters it, and from then on the cache and
\* the read count never change, whatever the file becomes; the rows a run
\* shows are rows of the cached frame.
C10_ReadAtMostOnce ==
    [][/\ reads' <= 1
       /\ cache.loaded => (cache' = cache /\ reads' = reads)
       /\ (~cache.loaded /\ cache'.loaded) =>
             (reads' = 1 /\ cache'.df = SexFilter(csv.rows))
       /\ detail'.shown => detail'.year_data \in Range(cache'.df)]_vars

\* C10 witness: a run after the file was replaced shows a row of the frame
\* read before, which the file no longer holds.
C10_Witness ==
    /\ reads = 1
    /\ cache.loaded
    /\ csv.exists
    /\ cache.df # SexFilter(csv.rows)
    /\ detail.shown
    /\ detail.year_data \in Range(cache.df)
    /\ detail.year_data \notin Range(SexFilter(csv.rows))

\* C13: in the Forecast view the defaults handed to the two multiselects
\* are among their options, whatever the search term: the three default
\* provinces among the "(PV)" labels, the three default municipalities
\* among the municipalities left by the search term.
C13_DefaultsAmongOptions ==
    (view = "Forecast" /\ cache.loaded /\ outcome # "none") =>
        /\ "plotly_chart national" \in Range(page) =>
              default_provinces \subseteq ProvinceOptions(cache.df)
        /\ "text_input" \in Range(page) =>
              default_municipalities \subseteq
                 Filtered(MunicipalityOptions(cache.df), widgets.search_term)
        /\ outcome # "StreamlitAPIException"

(***************************************************************************)
(* Properties of the runs and reruns of the statistics (SpecReruns).       *)
(***************************************************************************)
\* C14: a first-year comparison zeroes a copy only: the selected-year
\* record shown is the record of the file, the current values displayed
\* are its values, the frame in the cache is the filtered file, and no
\* run changes the cache once it is loaded, so later runs see the same.
C14_ZeroingLeavesDataUnchanged ==
    [][/\ (detail'.shown /\ detail'.is_first_year) =>
            /\ \E k \in DOMAIN FileFrame :
                  /\ FileFrame[k].region = detail'.region_name
                  /\ FileFrame[k].year = detail'.selected_year
                  /\ detail'.year_data = FileFrame[k]
                  /\ \A label \in MetricLabels :
                        detail'.metrics[label].value
                           = format_number(MetricValue(FileFrame[k], label))
            /\ cache'.df = FileFrame
       /\ cache.loaded => cache' = cache]_vars

\* C14 witness: a first-year comparison of the Regional view in which the
\* zeroing changed the copy: the current population is shown as it is in
\* the file, not zero, and the previous-year record has it zero.
C14_Witness ==
    /\ detail.shown /\ detail.is_first_year
    /\ view = "Regional"
    /\ detail.year_data.m[POP] \notin {0, NaN}
    /\ detail.prev_year_data.m[POP] = 0
    /\ detail.metrics["Total Population"].value
          = [text |-> "int", int |-> detail.year_data.m[POP]]
    /\ cache.loaded /\ cache.df = FileFrame

=============================================================================
